---- MODULE Spec2Model ----
(***************************************************************************)
(* Model of the three SOLID example programs of the repository:           *)
(*   - the invoice pipeline (01-invoice-srp-ocp.cpp, src/unnamed/part_000) *)
(*   - the state-pattern media players (02-media-lsp-isp, part_000)        *)
(*   - the notifier fan-out (src/Cpp/03-notify-dip-ocp.cpp)                *)
(*                                                                         *)
(* A C++ double is the binary64 number itself: sign, odd mantissa (a       *)
(* natural number of up to 53 bits, kept as a sequence of 14-bit limbs)    *)
(* and binary exponent.  Sums, differences, products and the quotient by   *)
(* 100 are rounded to the nearest double, ties to even, as the hardware    *)
(* rounds them, and a double is printed from its exact binary value.  The  *)
(* exponent is not bounded: overflow, subnormal numbers, infinities and    *)
(* NaN do not occur for the amounts of an invoice and are not modelled.    *)
(* An int is the 32-bit int of the builds.  Converting a double that no    *)
(* int holds is undefined behaviour: the builds store the smallest int     *)
(* (conversion at run time) or the end of the range nearest to the double  *)
(* (conversion folded by the compiler), and the model allows both.         *)
(* A text with embedded newlines is the sequence of its lines.             *)
(***************************************************************************)
EXTENDS Integers, Sequences, FiniteSets, TLC

VARIABLES
    items,          \* vector<LineItem> owned by the caller of process
    discounts,      \* vector<unique_ptr<IDiscountStrategy>> owned by the caller
    discountArgs,   \* the constructor argument each strategy was built from
    last,           \* locals, result and collaborator calls of the latest process
                    \* call made with the present items and discounts
    cam,            \* LiveStreamPlayer: [state, playing]
    ap,             \* AudioPlayer: [playing]
    ops,            \* operations invoked on the players so far
    threw,          \* whether the last player operation raised an exception
    notifiers,      \* CompositeNotifier::notifiers
    signup          \* user, return value and notifier calls of the last signUp

vars == <<items, discounts, discountArgs, last,
          cam, ap, ops, threw, notifiers, signup>>

invoiceVars == <<items, discounts, discountArgs, last>>
playerVars == <<cam, ap, ops, threw>>
signupVars == <<notifiers, signup>>

(***************************************************************************)
(* Bounds of the model.                                                    *)
(***************************************************************************)
MaxItems == 2
MaxDiscounts == 3
MaxOps == 3
MaxNotifiers == 3

(***************************************************************************)
(* Natural numbers of any size: little-endian sequences of 14-bit limbs    *)
(***************************************************************************)
LimbBits == 14
Base == 16384

Pow2(k) == 2 ^ k

Pow10(k) == 10 ^ k

Abs(x) == IF x < 0 THEN -x ELSE x

Max(x, y) == IF x > y THEN x ELSE y

Min(x, y) == IF x < y THEN x ELSE y

Limb(a, i) == IF i <= Len(a) THEN a[i] ELSE 0

\* a without its leading zero limbs
RECURSIVE Trim(_)
Trim(a) ==
    IF a = << >> THEN a
    ELSE IF a[Len(a)] = 0 THEN Trim(SubSeq(a, 1, Len(a) - 1)) ELSE a

RECURSIVE FromInt(_)
FromInt(n) == IF n = 0 THEN << >> ELSE << n % Base >> \o FromInt(n \div Base)

RECURSIVE ToInt(_)
ToInt(a) == IF a = << >> THEN 0 ELSE a[1] + Base * ToInt(Tail(a))

\* carry propagation over column values (each below 2^31 - 2^17, possibly negative)
RECURSIVE Carry(_, _, _)
Carry(cols, i, c) ==
    IF i > Len(cols) THEN FromInt(c)
    ELSE << (cols[i] + c) % Base >> \o Carry(cols, i + 1, (cols[i] + c) \div Base)

AddN(a, b) == Trim(Carry([i \in 1 .. Max(Len(a), Len(b)) |-> Limb(a, i) + Limb(b, i)], 1, 0))

\* a - b for a >= b
SubN(a, b) == Trim(Carry([i \in 1 .. Len(a) |-> a[i] - Limb(b, i)], 1, 0))

\* a * k for 0 <= k < 2^16
MulSmall(a, k) == Trim(Carry([i \in 1 .. Len(a) |-> a[i] * k], 1, 0))

RECURSIVE ColSum(_, _, _, _)
ColSum(a, b, k, i) ==
    IF i > Len(a) \/ i > k THEN 0
    ELSE (IF k + 1 - i <= Len(b) THEN a[i] * b[k + 1 - i] ELSE 0) + ColSum(a, b, k, i + 1)

\* a * b, the shorter factor of at most 7 limbs
MulN(a, b) ==
    IF a = << >> \/ b = << >> THEN << >>
    ELSE Trim(Carry([k \in 1 .. Len(a) + Len(b) - 1 |-> ColSum(a, b, k, 1)], 1, 0))

\* quotient q and remainder r of a by k, 0 < k < 2^17
RECURSIVE DivLoop(_, _, _, _, _)
DivLoop(a, k, i, r, q) ==
    IF i = 0 THEN [q |-> Trim(q), r |-> r]
    ELSE DivLoop(a, k, i - 1, (r * Base + a[i]) % k, << (r * Base + a[i]) \div k >> \o q)

DivSmall(a, k) == DivLoop(a, k, Len(a), 0, << >>)

\* a * 2^(LimbBits * w) * lo, with lo * hi = Base
ShlBy(a, w, lo, hi) ==
    Trim([i \in 1 .. Len(a) + w + 1 |->
             IF i <= w THEN 0
             ELSE (Limb(a, i - w) % hi) * lo
                  + (IF i - w > 1 THEN a[i - w - 1] \div hi ELSE 0)])

\* a * 2^s
Shl(a, s) ==
    IF a = << >> THEN a
    ELSE ShlBy(a, s \div LimbBits, Pow2(s % LimbBits), Pow2(LimbBits - (s % LimbBits)))

\* floor(a / (2^(LimbBits * w) * lo)), with lo * hi = Base
ShrBy(a, w, lo, hi) ==
    Trim([i \in 1 .. Len(a) - w |-> a[i + w] \div lo + (Limb(a, i + w + 1) % lo) * hi])

\* floor(a / 2^s)
Shr(a, s) ==
    IF s \div LimbBits >= Len(a) THEN << >>
    ELSE ShrBy(a, s \div LimbBits, Pow2(s % LimbBits), Pow2(LimbBits - (s % LimbBits)))

\* a mod 2^s = 0
LowZero(a, s) ==
    /\ \A i \in 1 .. Min(s \div LimbBits, Len(a)) : a[i] = 0
    /\ Limb(a, s \div LimbBits + 1) % Pow2(s % LimbBits) = 0

\* bit s of a (bit 0 the lowest)
Bit(a, s) == (Limb(a, s \div LimbBits + 1) \div Pow2(s % LimbBits)) % 2

RECURSIVE BitLenInt(_)
BitLenInt(n) == IF n = 0 THEN 0 ELSE 1 + BitLenInt(n \div 2)

BitLen(a) == IF a = << >> THEN 0 ELSE LimbBits * (Len(a) - 1) + BitLenInt(a[Len(a)])

RECURSIVE TzInt(_)
TzInt(n) == IF n % 2 = 1 THEN 0 ELSE 1 + TzInt(n \div 2)

\* the number of trailing zero bits of a # 0, counted from limb i on
RECURSIVE Tz(_, _)
Tz(a, i) == IF a[i] = 0 THEN LimbBits + Tz(a, i + 1) ELSE TzInt(a[i])

\* -1, 0, 1 as a < b, a = b, a > b
RECURSIVE CmpFrom(_, _, _)
CmpFrom(a, b, i) ==
    IF i = 0 THEN 0
    ELSE IF a[i] > b[i] THEN 1 ELSE IF a[i] < b[i] THEN -1 ELSE CmpFrom(a, b, i - 1)

CmpN(a, b) ==
    IF Len(a) > Len(b) THEN 1 ELSE IF Len(a) < Len(b) THEN -1 ELSE CmpFrom(a, b, Len(a))

\* q = floor(a / 2^s), s > 0, moved to the nearest integer of a / 2^s, ties
\* to even; sticky tells that a stands for a value slightly above a
RoundUp(a, s, sticky, q) ==
    IF Bit(a, s - 1) = 1 /\ (sticky \/ ~LowZero(a, s - 1) \/ Limb(q, 1) % 2 = 1)
    THEN AddN(q, << 1 >>)
    ELSE q

\* a / 2^s rounded to the nearest integer, ties to even
RoundShr(a, s, sticky) == IF s = 0 THEN a ELSE RoundUp(a, s, sticky, Shr(a, s))

(***************************************************************************)
(* double (IEEE binary64, round to nearest even): the record neg, m, e is  *)
(* the number (-1)^neg * m * 2^e, m odd and below 2^53; zero has m = << >> *)
(***************************************************************************)
MantissaBits == 53

Zero == [neg |-> FALSE, m |-> << >>, e |-> 0]

IsZero(x) == x.m = << >>

Neg(x) == [x EXCEPT !.neg = ~x.neg]

\* n * 2^e with the tz trailing zero bits of n moved into the exponent
Odd(neg, n, e, tz) == [neg |-> neg, m |-> Shr(n, tz), e |-> e + tz]

Canon(neg, n, e) ==
    IF n = << >> THEN [neg |-> neg, m |-> << >>, e |-> 0]
    ELSE Odd(neg, n, e, Tz(n, 1))

\* n has s bits more than a mantissa holds
Rounded(neg, n, e, sticky, s) ==
    Canon(neg, IF s <= 0 THEN n ELSE RoundShr(n, s, sticky), IF s <= 0 THEN e ELSE e + s)

\* the double nearest to (-1)^neg * n * 2^e (n slightly raised when sticky)
MakeDouble(neg, n, e, sticky) == Rounded(neg, n, e, sticky, BitLen(n) - MantissaBits)

\* the range of int
INT_MAX == 2147483647

INT_MIN == -INT_MAX - 1

\* implicit conversion int -> double
FromIntD(n) ==
    IF n = INT_MIN THEN [neg |-> TRUE, m |-> << 1 >>, e |-> 31]
    ELSE Canon(n < 0, FromInt(Abs(n)), 0)

\* the double nearest to (-1)^neg * (d.q + d.r / k) * 2^e, d.q of 55 bits or more
Quotient(neg, d, e) == MakeDouble(neg, d.q, e, d.r # 0)

\* the double a decimal literal of v / 10000 denotes: the nearest one
FromDecimal(v) ==
    IF v = 0 THEN Zero
    ELSE Quotient(v < 0, DivSmall(Shl(FromInt(Abs(v)), 64), 625), -68)

\* the sum of (-1)^xneg * a * 2^e and (-1)^yneg * b * 2^e, c = CmpN(a, b)
AddAligned(xneg, yneg, a, b, e, c) ==
    IF xneg # yneg /\ c = 0 THEN Zero
    ELSE MakeDouble(IF c >= 0 THEN xneg ELSE yneg,
                    IF xneg = yneg THEN AddN(a, b)
                    ELSE IF c > 0 THEN SubN(a, b) ELSE SubN(b, a),
                    e, FALSE)

AddShifted(xneg, yneg, a, b, e) == AddAligned(xneg, yneg, a, b, e, CmpN(a, b))

\* double + double
AddD(x, y) ==
    IF IsZero(x) /\ IsZero(y) THEN [neg |-> x.neg /\ y.neg, m |-> << >>, e |-> 0]
    ELSE IF IsZero(x) THEN y
    ELSE IF IsZero(y) THEN x
    ELSE AddShifted(x.neg, y.neg, Shl(x.m, x.e - Min(x.e, y.e)),
                    Shl(y.m, y.e - Min(x.e, y.e)), Min(x.e, y.e))

\* double - double
SubD(x, y) == AddD(x, Neg(y))

\* double * double
MulD(x, y) == MakeDouble(x.neg # y.neg, MulN(x.m, y.m), x.e + y.e, FALSE)

\* x / 100 (the int 100 is converted to the double 100.0 = 25 * 2^2)
DivBy100(x) ==
    IF IsZero(x) THEN x
    ELSE Quotient(x.neg, DivSmall(Shl(x.m, 60), 25), x.e - 62)

\* |x| without its fraction
IntPart(x) == IF x.e >= 0 THEN Shl(x.m, x.e) ELSE Shr(x.m, -x.e)

\* (-1)^neg * n is an int: n < 2^31, or it is -2^31
FitsInt(neg, n) == BitLen(n) <= 31 \/ (neg /\ n = << 0, 0, 8 >>)

\* x without its fraction is an int
InIntRange(x) == x.e <= 31 /\ FitsInt(x.neg, IntPart(x))

\* implicit conversion double -> int: the ints it may yield.  In the range of
\* int it is x without its fraction (truncation toward zero); outside, the
\* behaviour is undefined and the builds store the smallest int or the end
\* of the range nearest to x
IntConversions(x) ==
    IF ~InIntRange(x) THEN { INT_MIN, IF x.neg THEN INT_MIN ELSE INT_MAX }
    ELSE IF x.neg /\ BitLen(IntPart(x)) = 32 THEN { INT_MIN }
    ELSE { (IF x.neg THEN -1 ELSE 1) * ToInt(IntPart(x)) }

(***************************************************************************)
(* double to text                                                          *)
(***************************************************************************)
\* n * 10^p for p >= 0
RECURSIVE MulPow10(_, _)
MulPow10(n, p) == IF p >= 4 THEN MulPow10(MulSmall(n, 10000), p - 4) ELSE MulSmall(n, Pow10(p))

\* d.q is a quotient and d.r the remainder left; sticky tells that a remainder
\* was dropped before
Dropped(d, sticky) == [q |-> d.q, sticky |-> sticky \/ d.r # 0]

\* quotient of n by 10^p for p >= 0, and whether a remainder was dropped
RECURSIVE DivPow10(_, _)
DivPow10(d, p) ==
    IF p = 0 \/ d.q = << >> THEN d
    ELSE DivPow10(Dropped(DivSmall(d.q, Pow10(Min(p, 4))), d.sticky), p - Min(p, 4))

\* d.q / 2^s rounded to the nearest integer, ties to even
RoundDropped(d, s) == RoundShr(d.q, s, d.sticky)

\* |x| * 10^p rounded to the nearest integer, ties to even
ScaledRound(x, p) ==
    IF p >= 0 /\ x.e >= 0 THEN Shl(MulPow10(x.m, p), x.e)
    ELSE RoundDropped(
             IF p >= 0 THEN [q |-> MulPow10(x.m, p), sticky |-> FALSE]
             ELSE DivPow10([q |-> Shl(x.m, Max(x.e, 0) + 1), sticky |-> FALSE], -p),
             IF p >= 0 THEN -x.e ELSE 1 - Min(x.e, 0))

\* the decimal digits of n, zero-padded on the left to width w
RECURSIVE Digits(_, _)
Digits(n, w) == IF w = 0 THEN "" ELSE Digits(n \div 10, w - 1) \o ToString(n % 10)

\* frac printed with w digits, trailing zeros removed
RECURSIVE StripZeros(_, _)
StripZeros(frac, w) ==
    IF w = 0 THEN ""
    ELSE IF frac % 10 = 0 THEN StripZeros(frac \div 10, w - 1)
    ELSE Digits(frac, w)

\* the digits after the point, with the point, or nothing when they are zero
Fraction(frac, w) == IF frac = 0 THEN "" ELSE "." \o StripZeros(frac, w)

\* q = |x| * 10^(5 - X0) rounded, X0 being floor(log10 |x|) or one off: the
\* decimal exponent X and the six significant digits q of %g, 10^5 <= q < 10^6
SixDigitsFrom(x, X0, q) ==
    IF q >= Pow10(6) \/ q < Pow10(5)
    THEN [X |-> IF q < Pow10(5) THEN X0 - 1 ELSE X0 + 1,
          q |-> ToInt(ScaledRound(x, IF q < Pow10(5) THEN 6 - X0 ELSE 4 - X0))]
    ELSE [X |-> X0, q |-> q]

SixDigits(x, X0) == SixDigitsFrom(x, X0, ToInt(ScaledRound(x, 5 - X0)))

\* %g with precision 6 of a number with decimal exponent sd.X and digits sd.q:
\* exponent style when sd.X < -4 or sd.X >= 6, trailing zeros removed
SixDigitsText(sd) ==
    IF sd.X < -4 \/ sd.X >= 6
    THEN ToString(sd.q \div Pow10(5)) \o Fraction(sd.q % Pow10(5), 5)
         \o "e" \o (IF sd.X < 0 THEN "-" ELSE "+")
         \o (IF Abs(sd.X) < 10 THEN "0" ELSE "") \o ToString(Abs(sd.X))
    ELSE ToString(sd.q \div Pow10(5 - sd.X)) \o Fraction(sd.q % Pow10(5 - sd.X), 5 - sd.X)

\* ostream << double with the default format: %g with 6 significant digits
FormatDouble(x) ==
    (IF x.neg THEN "-" ELSE "") \o
    (IF IsZero(x) THEN "0"
     ELSE SixDigitsText(SixDigits(x, ((BitLen(x.m) + x.e - 1) * 30103) \div 100000)))

\* the decimal digits of a natural number of any size
RECURSIVE DecimalString(_)
DecimalString(n) ==
    IF Len(n) <= 2 THEN ToString(ToInt(n))
    ELSE DecimalString(DivSmall(n, 10000).q) \o Digits(DivSmall(n, 10000).r, 4)

\* the text of (hi.q * 1000 + hi.r) * 1000 + lo.r millionths
Millionths(hi, lo) == DecimalString(hi.q) \o "." \o Digits(hi.r, 3) \o Digits(lo.r, 3)

Thousandths(lo) == Millionths(DivSmall(lo.q, 1000), lo)

\* std::to_string(double): %f, six decimals
to_string(x) ==
    (IF x.neg THEN "-" ELSE "") \o Thousandths(DivSmall(ScaledRound(x, 6), 1000))

\* x rounded to a whole number of 1/10000
Units(x) == (IF x.neg THEN -1 ELSE 1) * ToInt(ScaledRound(x, 4))

FormatInt(n) == ToString(n)

(***************************************************************************)
(* Invoice pipeline: inputs the caller can build                           *)
(***************************************************************************)
\* the double denoted by the decimal literal  whole.frac4  (frac4 in 1/10000)
Dec(whole, frac4) == FromDecimal(whole * 10000 + frac4)

LineItem(sku, quantity, unitPrice) ==
    [sku |-> sku, quantity |-> quantity, unitPrice |-> unitPrice]

\* the vector main passes
MainInvoice ==
    << LineItem("ITEM-001", 3, Dec(100, 0)),
       LineItem("ITEM-002", 1, Dec(250, 0)) >>

\* the items of main
MainItems == { MainInvoice[i] : i \in DOMAIN MainInvoice }

\* a further item a caller may pass: a single unit of 100
OtherItems == { LineItem("ITEM-003", 1, Dec(100, 0)) }

ItemChoices == MainItems \cup OtherItems

\* constructor calls the caller may make: the class and the double it passes
DiscountChoices ==
    { [class |-> "PercentOff", arg |-> Dec(10, 0)],
      [class |-> "FlatOff", arg |-> Dec(1000, 0)],
      [class |-> "FlatOff", arg |-> Dec(12, 5000)] }

\* item vectors of a caller that goes on to build its strategy list: main's,
\* a single line of 10000.25, whose tenth 1000.025 lies halfway between two
\* six-digit decimals, and a single line of 19.95, whose tenth 1.995 is not a
\* binary fraction
InvoiceChoices ==
    { MainInvoice,
      << LineItem("ITEM-004", 1, Dec(10000, 2500)) >>,
      << LineItem("ITEM-005", 1, Dec(19, 9500)) >> }

EmailChoices == { "", "customer@example.com" }

\* PercentOff(double p) : percent(p)
PercentOff(p) == [class |-> "PercentOff", percent |-> p]

\* FlatOff(int a) : amount(a)   -- the member and the parameter are int
FlatOff(a) == [class |-> "FlatOff", amount |-> a]

\* make_unique<...>(arg) with a double arg: the objects it may build (the
\* argument of FlatOff is converted to int on the way)
Construct(c) ==
    IF c.class = "PercentOff" THEN { PercentOff(c.arg) }
    ELSE { FlatOff(a) : a \in IntConversions(c.arg) }

\* PercentOff::compute: subtotal * (percent / 100)
PercentOff_compute(d, subtotal) == MulD(subtotal, DivBy100(d.percent))

\* FlatOff::compute: return amount  -- int converted to the double returned
FlatOff_compute(d, subtotal) == FromIntD(d.amount)

\* virtual dispatch of IDiscountStrategy::compute
compute(d, subtotal) ==
    IF d.class = "PercentOff" THEN PercentOff_compute(d, subtotal)
    ELSE FlatOff_compute(d, subtotal)

\* bug variant: a negative taxable base is clamped to zero
GST18_computeClamped(base) == IF base.neg THEN Zero ELSE MulD(base, Dec(0, 1800))

\* GST18::compute: base * 0.18
GST18_compute(base) == MulD(base, Dec(0, 1800))

\* for (auto &it : items) subtotal += it.unitPrice * it.quantity;
RECURSIVE SubtotalLoop(_, _, _)
SubtotalLoop(its, i, subtotal) ==
    IF i > Len(its) THEN subtotal
    ELSE SubtotalLoop(its, i + 1,
             AddD(subtotal, MulD(its[i].unitPrice, FromIntD(its[i].quantity))))

\* bug variant: cascading discounts, each strategy sees the running remainder
RECURSIVE DiscountLoopCascading(_, _, _, _)
DiscountLoopCascading(ds, i, subtotal, discount_total) ==
    IF i > Len(ds) THEN discount_total
    ELSE DiscountLoopCascading(ds, i + 1, subtotal,
             AddD(discount_total, compute(ds[i], SubD(subtotal, discount_total))))

\* for (auto &d : discounts) discount_total += d->compute(subtotal);
RECURSIVE DiscountLoop(_, _, _, _)
DiscountLoop(ds, i, subtotal, discount_total) ==
    IF i > Len(ds) THEN discount_total
    ELSE DiscountLoop(ds, i + 1, subtotal,
             AddD(discount_total, compute(ds[i], subtotal)))

\* out << it.sku << " x" << it.quantity << " @ " << it.unitPrice << "\n";
ItemLine(it) ==
    it.sku \o " x" \o FormatInt(it.quantity) \o " @ " \o FormatDouble(it.unitPrice)

\* bug variant: the item lines are emitted in reverse order
RECURSIVE ItemLoopReversed(_, _, _)
ItemLoopReversed(its, i, out) ==
    IF i > Len(its) THEN out
    ELSE ItemLoopReversed(its, i + 1, << out[1], ItemLine(its[i]) >> \o Tail(out))

RECURSIVE ItemLoop(_, _, _)
ItemLoop(its, i, out) ==
    IF i > Len(its) THEN out
    ELSE ItemLoop(its, i + 1, Append(out, ItemLine(its[i])))

\* SimpleTextRenderer::render
render(its, subtotal, discount, tax, grand) ==
    LET header == << "INVOICE" >>
        body == ItemLoop(its, 1, header)
    IN  body \o << "Subtotal: " \o FormatDouble(subtotal),
                   "Discounts: " \o FormatDouble(discount),
                   "Tax: " \o FormatDouble(tax),
                   "Total: " \o FormatDouble(grand) >>

\* ConsoleEmailService::send, as the call the collaborator receives
send(email, content) == [call |-> "send", email |-> email, content |-> content]

\* ConsoleLogger::log, as the call the collaborator receives
log(msg) == [call |-> "log", msg |-> msg]

\* bug variant: the audit log is written before the notification, and only
\* when a notification is due
DispatchLogFirst(email, content, grand) ==
    IF email # ""
    THEN << log("Invoice processed for " \o email \o " total=" \o to_string(grand)),
            send(email, content) >>
    ELSE << >>

\* bug variant: the notification is sent whether or not an address was given
DispatchUngated(email, content, grand) ==
    << send(email, content),
       log("Invoice processed for " \o email \o " total=" \o to_string(grand)) >>

\* the collaborator calls of one process call, in program order
Dispatch(email, content, grand) ==
    (IF email # "" THEN << send(email, content) >> ELSE << >>)
    \o << log("Invoice processed for " \o email \o " total=" \o to_string(grand)) >>

\* InvoiceService::process: the locals at the return statement, the returned
\* text and the collaborator calls made
process(its, ds, email) ==
    LET subtotal == SubtotalLoop(its, 1, Zero)
        discount_total == DiscountLoop(ds, 1, subtotal, Zero)
        tax == GST18_compute(SubD(subtotal, discount_total))
        grand == AddD(SubD(subtotal, discount_total), tax)
        content == render(its, subtotal, discount_total, tax, grand)
    IN  [called |-> TRUE, items |-> its, discounts |-> ds, email |-> email,
         subtotal |-> subtotal, discount_total |-> discount_total,
         tax |-> tax, grand |-> grand, content |-> content,
         events |-> Dispatch(email, content, grand)]

NoCall ==
    [called |-> FALSE, items |-> << >>, discounts |-> << >>, email |-> "",
     subtotal |-> Zero, discount_total |-> Zero, tax |-> Zero, grand |-> Zero,
     content |-> << >>, events |-> << >>]

InvoiceInit ==
    /\ items = << >>
    /\ discounts = << >>
    /\ discountArgs = << >>
    /\ last = NoCall

\* the caller appends a line item to its vector
AddItem(it) ==
    /\ Len(items) < MaxItems
    /\ items' = Append(items, it)
    /\ last' = NoCall
    /\ UNCHANGED <<discounts, discountArgs, playerVars, signupVars>>

\* discounts.push_back(make_unique<...>(arg))
AddDiscount(c) ==
    /\ Len(discounts) < MaxDiscounts
    /\ \E d \in Construct(c) : discounts' = Append(discounts, d)
    /\ discountArgs' = Append(discountArgs, c.arg)
    /\ last' = NoCall
    /\ UNCHANGED <<items, playerVars, signupVars>>

\* svc.process(items, discounts, email)
Process(email) ==
    /\ last' = process(items, discounts, email)
    /\ UNCHANGED <<items, discounts, discountArgs, playerVars, signupVars>>

(***************************************************************************)
(* Media players (state pattern)                                           *)
(***************************************************************************)
\* AudioPlayer::play
AudioPlayer_play(a) == [a EXCEPT !.playing = TRUE]

\* AudioPlayer::pause
AudioPlayer_pause(a) == [a EXCEPT !.playing = FALSE]

\* AudioPlayer::download
AudioPlayer_download(a) == a

\* LiveStreamPlayer::initializeStream: state = State::Streaming
initializeStream(c) == [c EXCEPT !.state = "Streaming"]

\* bug variant: play before the stream was initialized raises (the precondition
\* of the earlier LiveStreamPlayer)
playRequiresStream(c) ==
    IF c.state = "Idle" THEN [cam |-> c, threw |-> TRUE]
    ELSE [cam |-> [c EXCEPT !.playing = TRUE, !.state = "Playing"], threw |-> FALSE]

\* LiveStreamPlayer::play: the switch, with the fall-through from Idle into
\* the Streaming case; no path throws
play(c) ==
    LET start == [c EXCEPT !.playing = TRUE, !.state = "Playing"]
    IN  CASE c.state = "Idle" ->
                 LET preparing == [c EXCEPT !.state = "Preparing"]
                     ready == initializeStream(preparing)
                 IN  [cam |-> [ready EXCEPT !.playing = TRUE, !.state = "Playing"],
                      threw |-> FALSE]
          [] c.state = "Streaming" -> [cam |-> start, threw |-> FALSE]
          [] c.state = "Playing" -> [cam |-> c, threw |-> FALSE]
          [] c.state = "Preparing" ->
                 LET ready == initializeStream(c)
                 IN  [cam |-> [ready EXCEPT !.playing = TRUE, !.state = "Playing"],
                      threw |-> FALSE]

\* LiveStreamPlayer::pause
pause(c) ==
    LET stopped == [c EXCEPT !.playing = FALSE]
    IN  IF c.state = "Playing" THEN [stopped EXCEPT !.state = "Streaming"]
        ELSE stopped

\* LiveStreamPlayer::record
record(c) == c

\* LiveStreamPlayer::isPlaying
isPlaying(c) == c.playing

PlayerInit ==
    /\ cam = [state |-> "Idle", playing |-> FALSE]
    /\ ap = [playing |-> FALSE]
    /\ ops = << >>
    /\ threw = FALSE

CamInitializeStream ==
    /\ Len(ops) < MaxOps
    /\ cam' = initializeStream(cam)
    /\ ops' = Append(ops, "initializeStream")
    /\ threw' = FALSE
    /\ UNCHANGED <<ap, invoiceVars, signupVars>>

CamPlay ==
    /\ Len(ops) < MaxOps
    /\ cam' = play(cam).cam
    /\ threw' = play(cam).threw
    /\ ops' = Append(ops, "play")
    /\ UNCHANGED <<ap, invoiceVars, signupVars>>

CamPause ==
    /\ Len(ops) < MaxOps
    /\ cam' = pause(cam)
    /\ ops' = Append(ops, "pause")
    /\ threw' = FALSE
    /\ UNCHANGED <<ap, invoiceVars, signupVars>>

CamRecord ==
    /\ Len(ops) < MaxOps
    /\ cam' = record(cam)
    /\ ops' = Append(ops, "record")
    /\ threw' = FALSE
    /\ UNCHANGED <<ap, invoiceVars, signupVars>>

ApPlay ==
    /\ Len(ops) < MaxOps
    /\ ap' = AudioPlayer_play(ap)
    /\ ops' = Append(ops, "ap.play")
    /\ threw' = FALSE
    /\ UNCHANGED <<cam, invoiceVars, signupVars>>

ApPause ==
    /\ Len(ops) < MaxOps
    /\ ap' = AudioPlayer_pause(ap)
    /\ ops' = Append(ops, "ap.pause")
    /\ threw' = FALSE
    /\ UNCHANGED <<cam, invoiceVars, signupVars>>

ApDownload ==
    /\ Len(ops) < MaxOps
    /\ ap' = AudioPlayer_download(ap)
    /\ ops' = Append(ops, "ap.download")
    /\ threw' = FALSE
    /\ UNCHANGED <<cam, invoiceVars, signupVars>>

(***************************************************************************)
(* Notifier fan-out                                                        *)
(***************************************************************************)
User(e, p) == [email |-> e, phone |-> p]

UserChoices ==
    { User(e, p) : e \in { "", "user@example.com" }, p \in { "", "+15550001111" } }

\* the notifier objects of the composition root
NotifierChoices == { "welcomeEmail", "otp" }

\* WelcomeEmailNotifier::notify -> IEmailService::sendEmail
WelcomeEmailNotifier_notify(u) ==
    [call |-> "sendEmail", a1 |-> "welcome", a2 |-> u.email, a3 |-> "Welcome!"]

\* OTPNotifier::notify -> ISmsService::sendSMS
OTPNotifier_notify(u) ==
    [call |-> "sendSMS", a1 |-> u.phone, a2 |-> "123456", a3 |-> ""]

\* virtual dispatch of INotifier::notify on a leaf notifier
notify(n, u) ==
    [notifier |-> n,
     effect |-> IF n = "welcomeEmail" THEN WelcomeEmailNotifier_notify(u)
                ELSE OTPNotifier_notify(u)]

\* CompositeNotifier::notify: for (auto n : notifiers) n->notify(u);
RECURSIVE CompositeNotifier_notify(_, _, _, _)
CompositeNotifier_notify(ns, i, u, calls) ==
    IF i > Len(ns) THEN calls
    ELSE CompositeNotifier_notify(ns, i + 1, u, Append(calls, notify(ns[i], u)))

\* bug variant: the empty-email guard is missing
signUpUnguarded(ns, u) ==
    [ret |-> TRUE, calls |-> CompositeNotifier_notify(ns, 1, u, << >>)]

\* SignUpService::signUp, wired to the composite
signUp(ns, u) ==
    IF u.email = "" THEN [ret |-> FALSE, calls |-> << >>]
    ELSE [ret |-> TRUE, calls |-> CompositeNotifier_notify(ns, 1, u, << >>)]

SignUpInit ==
    /\ notifiers = << >>
    /\ signup = [called |-> FALSE, user |-> User("", ""), wired |-> << >>,
                 ret |-> FALSE, calls |-> << >>]

\* CompositeNotifier::add
Add(n) ==
    /\ Len(notifiers) < MaxNotifiers
    /\ notifiers' = Append(notifiers, n)
    /\ UNCHANGED <<signup, invoiceVars, playerVars>>

\* svc.signUp(u)
SignUp(u) ==
    /\ signup' = [called |-> TRUE, user |-> u, wired |-> notifiers,
                  ret |-> signUp(notifiers, u).ret,
                  calls |-> signUp(notifiers, u).calls]
    /\ UNCHANGED <<notifiers, invoiceVars, playerVars>>

(***************************************************************************)
(* Specifications                                                          *)
(***************************************************************************)
Init == InvoiceInit /\ PlayerInit /\ SignUpInit

Next ==
    \/ \E it \in ItemChoices : AddItem(it)
    \/ \E c \in DiscountChoices : AddDiscount(c)
    \/ \E email \in EmailChoices : Process(email)

Spec == Init /\ [][Next]_vars

\* a caller that holds an invoice and builds its strategy list
InitDiscounts ==
    /\ items \in InvoiceChoices
    /\ discounts = << >>
    /\ discountArgs = << >>
    /\ last = NoCall
    /\ PlayerInit
    /\ SignUpInit

NextDiscounts ==
    \/ \E c \in DiscountChoices : AddDiscount(c)
    \/ \E email \in EmailChoices : Process(email)

SpecDiscounts == InitDiscounts /\ [][NextDiscounts]_vars

NextPlayer ==
    \/ CamInitializeStream
    \/ CamPlay
    \/ CamPause
    \/ CamRecord
    \/ ApPlay
    \/ ApPause
    \/ ApDownload

SpecPlayer == Init /\ [][NextPlayer]_vars

NextSignUp ==
    \/ \E n \in NotifierChoices : Add(n)
    \/ \E u \in UserChoices : SignUp(u)

SpecSignUp == Init /\ [][NextSignUp]_vars

(***************************************************************************)
(* Properties                                                              *)
(***************************************************************************)
CallsOf(events, name) == { i \in DOMAIN events : events[i].call = name }

\* C1: in every process call, send is invoked exactly when the email is
\* non-empty, at most once, with that email and the rendered text; with an
\* empty email nothing is sent and the rendered text is still returned.
NotificationGating ==
    last.called =>
        /\ Cardinality(CallsOf(last.events, "send")) = (IF last.email # "" THEN 1 ELSE 0)
        /\ \A i \in CallsOf(last.events, "send") :
               /\ last.events[i].email = last.email
               /\ last.events[i].content = last.content
        /\ Len(last.content) = 1 + Len(last.items) + 4

NotificationGatingWitness ==
    /\ last.called
    /\ last.email = ""
    /\ Len(last.items) > 0
    /\ CallsOf(last.events, "send") = {}
    /\ Len(last.content) > 1

\* C2: in every process call, log is invoked exactly once, as the last
\* collaborator call (after send when send is invoked), and its message
\* carries the recipient address and the grand total.
AuditLogOnceAfterNotify ==
    last.called =>
        /\ Cardinality(CallsOf(last.events, "log")) = 1
        /\ last.events[Len(last.events)].call = "log"
        /\ last.events[Len(last.events)].msg =
               "Invoice processed for " \o last.email \o " total=" \o to_string(last.grand)
        /\ \A i \in CallsOf(last.events, "send") : i < Len(last.events)

AuditLogOnceAfterNotifyWitness ==
    /\ last.called
    /\ last.email # ""
    /\ Len(last.events) = 2
    /\ last.events[1].call = "send"
    /\ ~IsZero(last.grand)

\* the strategies in another order
Permuted(ds, p) == [i \in DOMAIN ds |-> ds[p[i]]]

Reorderings(ds) == { Permuted(ds, p) : p \in Permutations(DOMAIN ds) }

\* discount_total after the first k strategies
Partial(ds, k, subtotal) == DiscountLoop(SubSeq(ds, 1, k), 1, subtotal, Zero)

\* the sum of the magnitudes of what the strategies take off the subtotal
RECURSIVE SumMagnitudes(_, _, _)
SumMagnitudes(ds, i, subtotal) ==
    IF i > Len(ds) THEN Zero
    ELSE AddD([compute(ds[i], subtotal) EXCEPT !.neg = FALSE],
              SumMagnitudes(ds, i + 1, subtotal))

\* the binary exponent E of x # 0: 2^(E-1) <= |x| < 2^E
Exponent(x) == BitLen(x.m) + x.e

\* d = 0 or |d| < 2^-47 * |scale|: no more than the rounding of a few additions
WithinRounding(d, scale) == IsZero(d) \/ Exponent(d) <= Exponent(scale) - 48

Percent18(b) == (b \div 100) * 18 + ((b % 100) * 18) \div 100

\* C4: the taxable base subtotal - discount_total is not clamped, tax is 18%
\* of it (negative for a negative base) and grand = subtotal - discount_total
\* + tax; FlatOff(1000) alone on subtotal 100 gives 1000, -162, -1062.
TaxOnUnclampedBase ==
    last.called =>
        /\ Units(last.tax) = Percent18(Units(SubD(last.subtotal, last.discount_total)))
        /\ last.grand = AddD(SubD(last.subtotal, last.discount_total), last.tax)
        /\ (Units(last.subtotal) < Units(last.discount_total) =>
                last.tax.neg /\ ~IsZero(last.tax))
        /\ (last.discounts = << FlatOff(1000) >> /\ last.subtotal = Dec(100, 0) =>
                /\ last.discount_total = Dec(1000, 0)
                /\ last.tax = Neg(Dec(162, 0))
                /\ last.grand = Neg(Dec(1062, 0)))

TaxOnUnclampedBaseWitness ==
    /\ last.called
    /\ last.subtotal = Dec(100, 0)
    /\ last.discounts = << FlatOff(1000) >>
    /\ last.tax = Neg(Dec(162, 0))
    /\ last.grand = Neg(Dec(1062, 0))

\* C5: FlatOff(amount).compute(subtotal) returns exactly the decimal amount
\* it was constructed with, for every amount and every subtotal.
FlatOffReturnsAmount ==
    \A i \in DOMAIN discounts :
        discounts[i].class = "FlatOff" =>
            \A subtotal \in { Zero, last.subtotal } :
                compute(discounts[i], subtotal) = discountArgs[i]

\* C6: the rendered text is the header line, one line per item in input
\* order with its sku, quantity and unit price, then the four summary lines
\* Subtotal, Discounts, Tax, Total with the computed values.
RenderLayout ==
    last.called =>
        LET n == Len(last.items)
            text == last.content
        IN  /\ Len(text) = 1 + n + 4
            /\ text[1] = "INVOICE"
            /\ \A i \in 1 .. n :
                   text[1 + i] = last.items[i].sku \o " x"
                                 \o FormatInt(last.items[i].quantity) \o " @ "
                                 \o FormatDouble(last.items[i].unitPrice)
            /\ text[n + 2] = "Subtotal: " \o FormatDouble(last.subtotal)
            /\ text[n + 3] = "Discounts: " \o FormatDouble(last.discount_total)
            /\ text[n + 4] = "Tax: " \o FormatDouble(last.tax)
            /\ text[n + 5] = "Total: " \o FormatDouble(last.grand)

\* the run of main
RenderLayoutWitness ==
    /\ last.called
    /\ last.content = << "INVOICE", "ITEM-001 x3 @ 100", "ITEM-002 x1 @ 250",
                         "Subtotal: 550", "Discounts: 55", "Tax: 89.1",
                         "Total: 584.1" >>

\* C8: after play() returns, whatever was called before (nothing at all
\* included), isPlaying() is true, the state is Playing and nothing was raised.
PlayAlwaysWorks ==
    (ops # << >> /\ ops[Len(ops)] = "play") =>
        /\ isPlaying(cam)
        /\ cam.state = "Playing"
        /\ ~threw

PlayAlwaysWorksWitness ==
    /\ ops = << "play" >>
    /\ isPlaying(cam)
    /\ cam.state = "Playing"

\* C9: after every sequence of operations isPlaying() is true exactly when
\* the state is Playing, and the state is never Preparing.
FlagAgreesWithState ==
    /\ isPlaying(cam) <=> cam.state = "Playing"
    /\ cam.state # "Preparing"

\* C10: signUp with an empty email returns false and calls no notifier;
\* otherwise it returns true and calls notify on every notifier of the
\* composite exactly once, in the order they were added.
SignUpFanOut ==
    signup.called =>
        IF signup.user.email = ""
        THEN /\ signup.ret = FALSE
             /\ signup.calls = << >>
        ELSE /\ signup.ret = TRUE
             /\ Len(signup.calls) = Len(signup.wired)
             /\ \A i \in DOMAIN signup.wired :
                    /\ signup.calls[i].notifier = signup.wired[i]
                    /\ signup.calls[i].effect.call =
                           (IF signup.wired[i] = "welcomeEmail" THEN "sendEmail"
                            ELSE "sendSMS")

SignUpFanOutWitness ==
    /\ signup.called
    /\ signup.user.email # ""
    /\ signup.ret
    /\ signup.wired = << "welcomeEmail", "otp" >>
    /\ Len(signup.calls) = 2

====
